---- MODULE Spec2Model ----
(***************************************************************************)
(* dirman: a modal terminal file manager.                                  *)
(*                                                                         *)
(* The model follows src/src/ui/app.rs (App, the modal controller and its  *)
(* run loop), src/src/ui/user_input.rs (UserInput, the prompt buffer) and  *)
(* src/src/directory.rs (FileManager, the current path and the filesystem  *)
(* calls).  The filesystem itself is a tree of named nodes; the calls of   *)
(* std::fs are modelled by their POSIX behaviour on that tree.             *)
(*                                                                         *)
(* Strings are sequences of characters, a path is a sequence of names      *)
(* (its components, the first being the root), Option<usize> is the empty  *)
(* sequence (None) or a one-element sequence (Some(i)).                    *)
(***************************************************************************)
EXTENDS Integers, Sequences, FiniteSets, TLC

VARIABLES
    dir,          \* App.dir: FileManager, [curr_path]
    file_list,    \* App.file_list: [items, state]
    select_list,  \* App.select_list: [items, state]
    user_input,   \* App.user_input: [input_value, input_index]
    bookmarked,   \* App.bookmarked: [full_path, file_name]
    app_mode,     \* App.app_mode
    error_msg,    \* App.error_msg
    fs,           \* the filesystem: existing path -> kind
    pc,           \* position of App::run: "draw", "events", "done" or "panic"
    key,          \* the event read by the last handle_events
    calls,        \* the FileManager calls made by the last step, in order
    from_mode,    \* App.app_mode when that event was read
    turns         \* the number of events and outside changes so far

vars == <<dir, file_list, select_list, user_input, bookmarked, app_mode,
          error_msg, fs, pc, key, calls, from_mode, turns>>

----------------------------------------------------------------------------
(* Bounds of the model. *)

\* the number of events of a session
MaxTurns == 7
\* the longest text the user types into a prompt
MaxInput == 3

----------------------------------------------------------------------------
(* Characters, names, options. *)

\* a byte sequence that is not valid UTF-8, as one character of an OsString
BadByte == "\\xFF"

\* the characters of file names, in the order the listing uses
CharOrder == <<"-", "a", "b", "m", "n", "y", "N", "o", " ", "s", "u", "c", "h",
               "d", "i", "r", "e", "t", "/", BadByte>>

None == <<>>

Some(i) == <<i>>

\* usize::MAX, as far as the model's integers go
UsizeMax == 2147483647

saturating_add(i, n) == IF i + n > UsizeMax \/ i + n < 0 THEN UsizeMax ELSE i + n

saturating_sub(i, n) == IF i - n < 0 THEN 0 ELSE i - n

\* the root component of every absolute path
RootName == <<"/">>

\* the name of a directory entry that is not valid UTF-8
BadName == <<BadByte>>

\* the item App puts in the file list when the listing fails
NoSuchDirectory ==
    <<"N", "o", " ", "s", "u", "c", "h", " ", "d", "i", "r", "e", "c", "t", "o", "r", "y">>

\* OsString::into_string().is_ok() of one name
IsUtf8(name) == \A i \in 1..Len(name) : name[i] /= BadByte

----------------------------------------------------------------------------
(* Paths and the filesystem tree. *)

Last(s) == s[Len(s)]

Front(s) == SubSeq(s, 1, Len(s) - 1)

IsPrefix(p, q) == Len(p) <= Len(q) /\ SubSeq(q, 1, Len(p)) = p

\* Path::join(name) for a name without separators: one more component; the
\* empty name gives the same path with a trailing separator, kept as <<>>
join(path, name) == Append(path, name)

\* whether a path string ends in a separator
TrailingSlash(p) == Len(p) > 1 /\ Last(p) = <<>>

\* the node a path string names: a trailing separator is dropped
Norm(p) == IF TrailingSlash(p) THEN Front(p) ELSE p

\* OsString::into_string of a path: fails when a component is not UTF-8
into_string_ok(path) == \A i \in 1..Len(path) : IsUtf8(path[i])

Exists(f, p) == p \in DOMAIN f

IsDir(f, p) == p \in DOMAIN f /\ f[p] = "Directory"

IsFile(f, p) == p \in DOMAIN f /\ f[p] = "File"

\* the nodes at or below p
Subtree(f, p) == {q \in DOMAIN f : IsPrefix(p, q)}

\* the names of the immediate children of p
ChildNames(f, p) == {Last(q) : q \in {r \in DOMAIN f : Len(r) = Len(p) + 1 /\ IsPrefix(p, r)}}

\* f without the nodes of D
Without(f, D) == [q \in DOMAIN f \ D |-> f[q]]

\* f with the subtree at o moved to n (n's old subtree is replaced)
MoveTree(f, o, n) ==
    LET kept  == DOMAIN f \ (Subtree(f, o) \cup Subtree(f, n))
        moved == {n \o SubSeq(q, Len(o) + 1, Len(q)) : q \in Subtree(f, o)}
    IN  [q \in kept \cup moved |->
            IF q \in moved THEN f[o \o SubSeq(q, Len(n) + 1, Len(q))] ELSE f[q]]

Rank(c) == CHOOSE i \in 1..Len(CharOrder) : CharOrder[i] = c

\* lexicographic order of names
RECURSIVE NameLeq(_, _)
NameLeq(a, b) ==
    IF a = <<>> THEN TRUE
    ELSE IF b = <<>> THEN FALSE
    ELSE IF a[1] /= b[1] THEN Rank(a[1]) < Rank(b[1])
    ELSE NameLeq(Tail(a), Tail(b))

\* the order in which the filesystem lists a set of names: fixed for a given
\* directory content
RECURSIVE ListingOrder(_)
ListingOrder(S) ==
    IF S = {} THEN <<>>
    ELSE LET first == CHOOSE n \in S : \A o \in S : NameLeq(n, o)
         IN  <<first>> \o ListingOrder(S \ {first})

Ok(v) == [ok |-> TRUE, val |-> v]

Err(e) == [ok |-> FALSE, val |-> e]

\* std::fs::read_dir: the entries of an existing directory
fs_read_dir(f, p) ==
    IF IsDir(f, p) THEN Ok(ListingOrder(ChildNames(f, p)))
    ELSE IF Exists(f, p) THEN Err("ENOTDIR")
    ELSE Err("ENOENT")

\* std::fs::metadata: the kind of an existing node
fs_metadata(f, p) ==
    IF Exists(f, Norm(p)) /\ (TrailingSlash(p) => IsDir(f, Norm(p)))
    THEN Ok(f[Norm(p)]) ELSE Err("ENOENT")

\* std::fs::rename(old, new) on path strings; result [ok, val, fs]
fs_rename(f, old, new, denied) ==
    LET o == Norm(old)
        n == Norm(new)
        fail(e) == [ok |-> FALSE, val |-> e, fs |-> f]
    IN  IF old = <<>> \/ new = <<>> THEN fail("ENOENT")
        ELSE IF ~Exists(f, o) \/ Len(n) < 2 \/ Len(o) < 2 THEN fail("ENOENT")
        ELSE IF ~Exists(f, Front(n)) THEN fail("ENOENT")
        ELSE IF ~IsDir(f, Front(n)) THEN fail("ENOTDIR")
        ELSE IF denied THEN fail("EACCES")
        ELSE IF IsFile(f, o) /\ (TrailingSlash(old) \/ TrailingSlash(new)) THEN fail("ENOTDIR")
        ELSE IF o = n THEN [ok |-> TRUE, val |-> "", fs |-> f]
        ELSE IF IsPrefix(o, n) THEN fail("EINVAL")
        ELSE IF IsFile(f, o) /\ IsDir(f, n) THEN fail("EISDIR")
        ELSE IF IsDir(f, o) /\ IsFile(f, n) THEN fail("ENOTDIR")
        ELSE IF IsDir(f, n) /\ ChildNames(f, n) /= {} THEN fail("ENOTEMPTY")
        ELSE [ok |-> TRUE, val |-> "", fs |-> MoveTree(f, o, n)]
\* std::fs::remove_file / std::fs::remove_dir_all; result [ok, val, fs]
fs_remove(f, path, recursive, denied) ==
    LET p == Norm(path)
        fail(e) == [ok |-> FALSE, val |-> e, fs |-> f]
    IN  IF path = <<>> \/ ~Exists(f, p) \/ Len(p) < 2 THEN fail("ENOENT")
        ELSE IF denied THEN fail("EACCES")
        ELSE IF recursive /\ ~IsDir(f, p) THEN fail("ENOTDIR")
        ELSE IF ~recursive /\ (IsDir(f, p) \/ TrailingSlash(path)) THEN fail("EISDIR")
        ELSE [ok |-> TRUE, val |-> "", fs |-> Without(f, Subtree(f, p))]

\* std::fs::File::create: a new empty file, or an existing file truncated;
\* result [ok, val, fs]
fs_create(f, path, denied) ==
    LET p == Norm(path)
        fail(e) == [ok |-> FALSE, val |-> e, fs |-> f]
    IN  IF path = <<>> \/ Len(p) < 2 \/ ~Exists(f, Front(p)) THEN fail("ENOENT")
        ELSE IF ~IsDir(f, Front(p)) THEN fail("ENOTDIR")
        ELSE IF IsDir(f, p) \/ TrailingSlash(path) THEN fail("EISDIR")
        ELSE IF denied THEN fail("EACCES")
        ELSE IF IsFile(f, p) THEN [ok |-> TRUE, val |-> "", fs |-> f]
        ELSE [ok |-> TRUE, val |-> "", fs |-> [q \in DOMAIN f \cup {p} |->
                                                  IF q = p THEN "File" ELSE f[q]]]

----------------------------------------------------------------------------
(* my_errors.rs and directory.rs: MyError and FileManager. *)

\* MyError::FileError(msg).to_string()
FileError(msg) == <<"File Error: ">> \o msg

\* FileManager::dir_contents: the UTF-8 names of the entries of curr_path
dir_contents(f, d) ==
    LET entries == fs_read_dir(f, d.curr_path)
    IN  IF entries.ok THEN Ok(SelectSeq(entries.val, IsUtf8))
        ELSE Err(FileError(<<"Couldn't fetch directory entries">>))

\* a next_path that replaces the last component, as PathBuf::set_file_name does
next_path_set_file_name(d, end_dir) ==
    [d EXCEPT !.curr_path = Append(Front(@), end_dir)]

\* FileManager::next_path: PathBuf::push of one name
next_path(d, end_dir) == [d EXCEPT !.curr_path = Append(@, end_dir)]

\* FileManager::previous_path: PathBuf::pop, which leaves the root alone
previous_path(d) == [d EXCEPT !.curr_path = IF Len(@) > 1 THEN Front(@) ELSE @]

\* a get_file_path that converts lossily and never fails
get_file_path_lossy(d, file_name) == Ok(join(d.curr_path, file_name))

\* FileManager::get_file_path
get_file_path(d, file_name) ==
    LET path == join(d.curr_path, file_name)
    IN  IF into_string_ok(path) THEN Ok(path) ELSE Err(FileError(<<"Incorrect path">>))

\* FileManager::get_metadata: Some([file_name, filetype]) or None
get_metadata(f, d, file_name) ==
    LET metadata == fs_metadata(f, join(d.curr_path, file_name))
    IN  IF metadata.ok
        THEN Some([file_name |-> file_name, filetype |-> metadata.val])
        ELSE None

\* FileManager::rename; result [ok, val, fs]
rename(f, file_path, new_file_path, denied) ==
    LET r == fs_rename(f, file_path, new_file_path, denied)
    IN  IF r.ok THEN r
        ELSE [r EXCEPT !.val = FileError(<<"Insufficient privilages: ", r.val>>)]

\* FileManager::delete: a file is removed, a directory with all it holds
delete(f, file_path, filetype, denied) ==
    LET r == fs_remove(f, file_path, filetype = "Directory", denied)
    IN  IF r.ok THEN r
        ELSE [r EXCEPT !.val = FileError(<<"Couldn't delete: ", r.val>>)]

\* FileManager::create: an empty file at the path
create(f, file_path, denied) ==
    LET r == fs_create(f, file_path, denied)
    IN  IF r.ok THEN r
        ELSE [r EXCEPT !.val = FileError(<<"Couldn't create: ", r.val>>)]

----------------------------------------------------------------------------
(* user_input.rs: UserInput. *)

\* char::len_utf8: the characters of CharOrder that a String can hold are ASCII
len_utf8(c) == 1

\* String::len: the length in bytes
RECURSIVE str_len(_)
str_len(v) == IF v = <<>> THEN 0 ELSE len_utf8(v[1]) + str_len(Tail(v))

\* UserInput::default
UserInput_default == [input_value |-> <<>>, input_index |-> 0]

\* a UserInput::new that leaves the cursor at the start
UserInput_new_at_start(start_string) ==
    [input_value |-> start_string, input_index |-> 0]

\* UserInput::new
UserInput_new(start_string) ==
    [input_value |-> start_string, input_index |-> str_len(start_string)]

\* UserInput::get_input_value
get_input_value(u) == u.input_value

\* UserInput::byte_index: the byte offset of the input_index-th character,
\* or the length when there is no such character
byte_index(u) ==
    IF u.input_index < Len(u.input_value)
    THEN str_len(SubSeq(u.input_value, 1, u.input_index))
    ELSE str_len(u.input_value)

\* String::insert at a byte offset that is a character boundary
str_insert(v, index, ch) ==
    LET k == CHOOSE j \in 0..Len(v) : str_len(SubSeq(v, 1, j)) = index
    IN  SubSeq(v, 1, k) \o <<ch>> \o SubSeq(v, k + 1, Len(v))

\* UserInput::enter_char
enter_char(u, new_char) ==
    [u EXCEPT !.input_value = str_insert(@, byte_index(u), new_char)]

\* UserInput::delete_char: String::pop when input_index is not 0
delete_char(u) ==
    IF u.input_index /= 0
    THEN [u EXCEPT !.input_value = IF @ = <<>> THEN @ ELSE Front(@)]
    ELSE u
----------------------------------------------------------------------------
(* ratatui's ListState and List, as app.rs uses them. *)

\* ListState::select_next
select_next(state) ==
    Some(IF state = None THEN 0 ELSE saturating_add(state[1], 1))

\* a select_previous that wraps from the first item to the last
select_previous_wrapping(state) ==
    Some(IF state = None \/ state[1] = 0 THEN UsizeMax ELSE state[1] - 1)

\* ListState::select_previous
select_previous(state) ==
    Some(IF state = None THEN UsizeMax ELSE saturating_sub(state[1], 1))

\* a render that only clears the selection of an empty list
list_render_no_clamp(list, area_empty) ==
    IF area_empty THEN list
    ELSE IF list.items = <<>> THEN [list EXCEPT !.state = None]
    ELSE list

\* List's StatefulWidget::render: nothing is drawn in an empty area; an empty
\* list clears the selection, a selection past the end moves to the last item
list_render(list, area_empty) ==
    IF area_empty THEN list
    ELSE IF list.items = <<>> THEN [list EXCEPT !.state = None]
    ELSE IF list.state /= None /\ list.state[1] >= Len(list.items)
        THEN [list EXCEPT !.state = Some(saturating_sub(Len(list.items), 1))]
    ELSE list

----------------------------------------------------------------------------
(* app.rs: App.  A handler maps the App (with the filesystem, the log of    *)
(* FileManager calls and a panic flag) to the App after it.                 *)

Modes == {"Exit", "Files", "Select", "Rename", "Delete", "Create", "Help"}

\* KeyCode
Char(c) == <<"Char", c>>

Up == <<"Up">>

Down == <<"Down">>

Enter == <<"Enter">>

Esc == <<"Esc">>

Backspace == <<"Backspace">>

\* an event that is no key press (a release, a resize)
NoPress == <<"NoPress">>

\* <FileAction as FromStr>::from_str
FileAction_from_str(str) ==
    IF str \in {"Delete", "Rename", "Bookmark"} THEN Ok(str) ELSE Err("")

\* Bookmarked::default
Bookmarked_default == [full_path |-> <<>>, file_name |-> <<>>]

\* SelectList::default
SelectList_default == [items |-> <<"Delete", "Rename", "Bookmark">>, state |-> None]

\* one FileManager call of the log
Call(op, ok) == [op |-> op, ok |-> ok]

Log(s, op, ok) == [s EXCEPT !.calls = Append(@, Call(op, ok))]

\* items[i] on a Vec: out of range is a panic
InRange(items, i) == i + 1 \in 1..Len(items)

Panic(s) == [s EXCEPT !.panic = TRUE]

\* a refresh that lists the directory and keeps the items it had
refresh_items_stale(s) == Log(s, "dir_contents", dir_contents(s.fs, s.dir).ok)

\* the listing that App::default, App::run and App::move_out store
refresh_items(s) ==
    LET contents == dir_contents(s.fs, s.dir)
        t == Log(s, "dir_contents", contents.ok)
    IN  [t EXCEPT !.file_list.items =
            IF contents.ok THEN contents.val ELSE <<NoSuchDirectory>>]

\* App::select_previous_file
select_previous_file(s) == [s EXCEPT !.file_list.state = select_previous(@)]

\* App::select_next_file
select_next_file(s) == [s EXCEPT !.file_list.state = select_next(@)]

\* App::select_previous_action
select_previous_action(s) == [s EXCEPT !.select_list.state = select_previous(@)]

\* App::select_next_action
select_next_action(s) == [s EXCEPT !.select_list.state = select_next(@)]

\* App::move_into
move_into(s) ==
    IF s.file_list.state = None THEN s
    ELSE IF ~InRange(s.file_list.items, s.file_list.state[1]) THEN Panic(s)
    ELSE [s EXCEPT !.dir = next_path(@, s.file_list.items[s.file_list.state[1] + 1])]

\* App::move_out
move_out(s) == refresh_items([s EXCEPT !.dir = previous_path(@)])

\* an enter_select_menu that keeps the highlight the menu had
enter_select_menu_keep(s) == [s EXCEPT !.app_mode = "Select"]

\* App::enter_select_menu
enter_select_menu(s) ==
    [s EXCEPT !.app_mode = "Select", !.select_list.state = Some(0)]

\* App::exit_select_menu
exit_select_menu(s) ==
    [s EXCEPT !.app_mode = "Files", !.select_list.state = None]

\* a select_menu that acts on an empty name when no file is highlighted
select_menu_no_file_check(s) ==
    IF s.file_list.state /= None /\ ~InRange(s.file_list.items, s.file_list.state[1])
    THEN Panic(s)
    ELSE IF s.select_list.state = None THEN s
    ELSE IF ~InRange(s.select_list.items, s.select_list.state[1]) THEN Panic(s)
    ELSE
    LET file_name == IF s.file_list.state = None THEN <<>>
                     ELSE s.file_list.items[s.file_list.state[1] + 1]
        action    == FileAction_from_str(s.select_list.items[s.select_list.state[1] + 1])
        file_path == get_file_path(s.dir, file_name)
        t         == Log(s, "get_file_path", file_path.ok)
    IN  IF ~action.ok THEN s
        ELSE IF action.val = "Delete"
            THEN [s EXCEPT !.user_input = UserInput_default, !.app_mode = "Delete"]
        ELSE IF action.val = "Rename"
            THEN [s EXCEPT !.user_input = UserInput_new(file_name), !.app_mode = "Rename"]
        ELSE IF ~file_path.ok
            THEN [t EXCEPT !.error_msg = file_path.val]
        ELSE [t EXCEPT !.bookmarked = [full_path |-> file_path.val, file_name |-> file_name],
                       !.app_mode = "Files"]

\* App::select_menu
select_menu(s) ==
    IF s.file_list.state = None THEN s
    ELSE IF ~InRange(s.file_list.items, s.file_list.state[1]) THEN Panic(s)
    ELSE IF s.select_list.state = None THEN s
    ELSE IF ~InRange(s.select_list.items, s.select_list.state[1]) THEN Panic(s)
    ELSE
    LET file_name == s.file_list.items[s.file_list.state[1] + 1]
        action    == FileAction_from_str(s.select_list.items[s.select_list.state[1] + 1])
        file_path == get_file_path(s.dir, file_name)
        t         == Log(s, "get_file_path", file_path.ok)
    IN  IF ~action.ok THEN s
        ELSE IF action.val = "Delete"
            THEN [s EXCEPT !.user_input = UserInput_default, !.app_mode = "Delete"]
        ELSE IF action.val = "Rename"
            THEN [s EXCEPT !.user_input = UserInput_new(file_name), !.app_mode = "Rename"]
        ELSE IF ~file_path.ok
            THEN [t EXCEPT !.error_msg = file_path.val]
        ELSE [t EXCEPT !.bookmarked = [full_path |-> file_path.val, file_name |-> file_name],
                       !.app_mode = "Files"]

\* App::delete_file
delete_file(s, denied) ==
    IF s.file_list.state = None THEN s
    ELSE IF ~InRange(s.file_list.items, s.file_list.state[1]) THEN Panic(s)
    ELSE
    LET file_name == s.file_list.items[s.file_list.state[1] + 1]
        file_path == get_file_path(s.dir, file_name)
        t         == Log(s, "get_file_path", file_path.ok)
        metadata  == get_metadata(s.fs, s.dir, file_name)
        r         == delete(s.fs, file_path.val, metadata[1].filetype, denied)
        u         == Log(t, "delete", r.ok)
    IN  IF ~file_path.ok THEN [t EXCEPT !.error_msg = file_path.val]
        ELSE IF metadata = None THEN t
        ELSE IF r.ok THEN [u EXCEPT !.fs = r.fs]
        ELSE [u EXCEPT !.error_msg = r.val]

\* a rename_file that drops the error of FileManager::rename
rename_file_silent(s, denied) ==
    IF s.file_list.state = None THEN s
    ELSE IF ~InRange(s.file_list.items, s.file_list.state[1]) THEN Panic(s)
    ELSE
    LET file_path     == get_file_path(s.dir, s.file_list.items[s.file_list.state[1] + 1])
        new_file_path == get_file_path(s.dir, get_input_value(s.user_input))
        r             == rename(s.fs, file_path.val, new_file_path.val, denied)
        v             == Log(Log(Log(s, "get_file_path", file_path.ok),
                                 "get_file_path", new_file_path.ok), "rename", r.ok)
    IN  IF ~file_path.ok THEN [s EXCEPT !.error_msg = file_path.val]
        ELSE IF ~new_file_path.ok THEN [s EXCEPT !.error_msg = new_file_path.val]
        ELSE IF r.ok THEN [v EXCEPT !.fs = r.fs]
        ELSE v

\* App::rename_file
rename_file(s, denied) ==
    IF s.file_list.state = None THEN s
    ELSE IF ~InRange(s.file_list.items, s.file_list.state[1]) THEN Panic(s)
    ELSE
    LET file_name     == s.file_list.items[s.file_list.state[1] + 1]
        file_path     == get_file_path(s.dir, file_name)
        t             == Log(s, "get_file_path", file_path.ok)
        new_name      == get_input_value(s.user_input)
        new_file_path == get_file_path(s.dir, new_name)
        u             == Log(t, "get_file_path", new_file_path.ok)
        r             == rename(s.fs, file_path.val, new_file_path.val, denied)
        v             == Log(u, "rename", r.ok)
    IN  IF ~file_path.ok THEN [t EXCEPT !.error_msg = file_path.val]
        ELSE IF ~new_file_path.ok THEN [u EXCEPT !.error_msg = new_file_path.val]
        ELSE IF r.ok THEN [v EXCEPT !.fs = r.fs]
        ELSE [v EXCEPT !.error_msg = r.val]

\* a move_bookmarked that keeps the bookmark when the rename fails
move_bookmarked_keep_on_failure(s, denied) ==
    LET new_path == get_file_path(s.dir, s.bookmarked.file_name)
        t        == Log(s, "get_file_path", new_path.ok)
        r        == rename(s.fs, s.bookmarked.full_path, new_path.val, denied)
        u        == Log(t, "rename", r.ok)
    IN  IF ~new_path.ok THEN [t EXCEPT !.error_msg = new_path.val]
        ELSE IF r.ok THEN [u EXCEPT !.fs = r.fs, !.bookmarked = Bookmarked_default]
        ELSE [u EXCEPT !.error_msg = r.val]

\* a move_bookmarked that forgets the display name of the bookmark
move_bookmarked_half_clear(s, denied) ==
    LET new_path == get_file_path(s.dir, s.bookmarked.file_name)
        t        == Log(s, "get_file_path", new_path.ok)
        r        == rename(s.fs, s.bookmarked.full_path, new_path.val, denied)
        u        == Log(t, "rename", r.ok)
    IN  IF ~new_path.ok THEN [t EXCEPT !.error_msg = new_path.val]
        ELSE IF r.ok THEN [u EXCEPT !.fs = r.fs, !.bookmarked.full_path = <<>>]
        ELSE [u EXCEPT !.error_msg = r.val, !.bookmarked.full_path = <<>>]

\* App::move_bookmarked
move_bookmarked(s, denied) ==
    LET new_path == get_file_path(s.dir, s.bookmarked.file_name)
        t        == Log(s, "get_file_path", new_path.ok)
        r        == rename(s.fs, s.bookmarked.full_path, new_path.val, denied)
        u        == Log(t, "rename", r.ok)
    IN  IF ~new_path.ok THEN [t EXCEPT !.error_msg = new_path.val]
        ELSE IF r.ok THEN [u EXCEPT !.fs = r.fs, !.bookmarked = Bookmarked_default]
        ELSE [u EXCEPT !.error_msg = r.val, !.bookmarked = Bookmarked_default]

\* App::create_file
create_file(s, denied) ==
    LET new_name  == get_input_value(s.user_input)
        file_path == get_file_path(s.dir, new_name)
        t         == Log(s, "get_file_path", file_path.ok)
        r         == create(s.fs, file_path.val, denied)
        u         == Log(t, "create", r.ok)
    IN  IF ~file_path.ok THEN [t EXCEPT !.error_msg = file_path.val]
        ELSE IF r.ok THEN [u EXCEPT !.fs = r.fs]
        ELSE [u EXCEPT !.error_msg = r.val]

\* a statement that runs after a handler returned, and not after a panic
Then(s, mode) == IF s.panic THEN s ELSE [s EXCEPT !.app_mode = mode]

\* the arms of App::handle_key_event for the mode Files
handle_key_Files(s, code, denied) ==
    IF code \in {Up, Char("k")} THEN select_previous_file(s)
    ELSE IF code \in {Down, Char("j")} THEN select_next_file(s)
    ELSE IF code = Char("a") THEN [s EXCEPT !.app_mode = "Create"]
    ELSE IF code = Char("m") THEN move_into(s)
    ELSE IF code = Char("-") THEN move_out(s)
    ELSE IF code = Char("b") THEN move_bookmarked(s, denied)
    ELSE IF code = Enter THEN enter_select_menu(s)
    ELSE s

\* a menu whose Up and Down move the highlight of the file list
handle_key_Select_moves_files(s, code) ==
    IF code \in {Up, Char("k")} THEN select_previous_file(s)
    ELSE IF code \in {Down, Char("j")} THEN select_next_file(s)
    ELSE IF code = Enter THEN select_menu(s)
    ELSE IF code = Esc THEN exit_select_menu(s)
    ELSE s

\* the arms of App::handle_key_event for the mode Select
handle_key_Select(s, code) ==
    IF code \in {Up, Char("k")} THEN select_previous_action(s)
    ELSE IF code \in {Down, Char("j")} THEN select_next_action(s)
    ELSE IF code = Enter THEN select_menu(s)
    ELSE IF code = Esc THEN exit_select_menu(s)
    ELSE s

\* prompts without an arm for Esc
handle_key_input_no_esc(s, code) ==
    IF code[1] = "Char" THEN [s EXCEPT !.user_input = enter_char(@, code[2])]
    ELSE IF code = Backspace THEN [s EXCEPT !.user_input = delete_char(@)]
    ELSE s

\* the arms Char, Backspace and Esc that Rename, Delete and Create share
handle_key_input(s, code) ==
    IF code[1] = "Char" THEN [s EXCEPT !.user_input = enter_char(@, code[2])]
    ELSE IF code = Backspace THEN [s EXCEPT !.user_input = delete_char(@)]
    ELSE IF code = Esc THEN [s EXCEPT !.app_mode = "Select"]
    ELSE s

\* the arms of App::handle_key_event for the mode Rename
handle_key_Rename(s, code, denied) ==
    IF code = Enter THEN Then(rename_file(s, denied), "Files")
    ELSE handle_key_input(s, code)

\* a confirmation that only "n" refuses
confirmed_unless_n(u) == get_input_value(u) /= <<"n">>

\* the condition of Enter in the mode Delete
confirmed(u) == get_input_value(u) = <<"y">>

\* a prompt of Delete in which Esc confirms as Enter does
handle_key_Delete_esc_as_enter(s, code, denied) ==
    IF code \in {Enter, Esc}
    THEN Then(IF confirmed(s.user_input) THEN delete_file(s, denied) ELSE s, "Files")
    ELSE handle_key_input(s, code)

\* the arms of App::handle_key_event for the mode Delete
handle_key_Delete(s, code, denied) ==
    IF code = Enter
    THEN Then(IF confirmed(s.user_input) THEN delete_file(s, denied) ELSE s, "Files")
    ELSE handle_key_input(s, code)

\* a Help overlay that lets the keys through to the mode Files
handle_key_Help_as_Files(s, code) == handle_key_Files(s, code, FALSE)

\* the arms of App::handle_key_event for the mode Help
handle_key_Help(s, code) ==
    IF code = Esc THEN [s EXCEPT !.app_mode = "Files"] ELSE s

\* the arms of App::handle_key_event for the mode Create
handle_key_Create(s, code, denied) ==
    IF code = Enter THEN Then(create_file(s, denied), "Files")
    ELSE handle_key_input(s, code)

\* a handle_key_event whose prompts take every character before q is looked at
handle_key_event_prompt_first(s, code, denied) ==
    IF s.app_mode = "Rename" THEN handle_key_Rename(s, code, denied)
    ELSE IF s.app_mode = "Delete" THEN handle_key_Delete(s, code, denied)
    ELSE IF s.app_mode = "Create" THEN handle_key_Create(s, code, denied)
    ELSE IF code = Char("q") THEN [s EXCEPT !.app_mode = "Exit"]
    ELSE IF code = Char("?") THEN [s EXCEPT !.app_mode = "Help"]
    ELSE IF s.app_mode = "Files" THEN handle_key_Files(s, code, denied)
    ELSE IF s.app_mode = "Select" THEN handle_key_Select(s, code)
    ELSE IF s.app_mode = "Help" THEN handle_key_Help(s, code)
    ELSE s

\* App::handle_key_event
handle_key_event(s, code, denied) ==
    IF code = Char("q") THEN [s EXCEPT !.app_mode = "Exit"]
    ELSE IF code = Char("?") THEN [s EXCEPT !.app_mode = "Help"]
    ELSE IF s.app_mode = "Files" THEN handle_key_Files(s, code, denied)
    ELSE IF s.app_mode = "Select" THEN handle_key_Select(s, code)
    ELSE IF s.app_mode = "Rename" THEN handle_key_Rename(s, code, denied)
    ELSE IF s.app_mode = "Delete" THEN handle_key_Delete(s, code, denied)
    ELSE IF s.app_mode = "Help" THEN handle_key_Help(s, code)
    ELSE IF s.app_mode = "Create" THEN handle_key_Create(s, code, denied)
    ELSE s

\* App::handle_events: only a key press is handled
handle_events(s, event, denied) ==
    IF event = NoPress THEN s ELSE handle_key_event(s, event, denied)
\* App::render_input: the prompt of the mode Delete names the highlighted file
render_input(s) ==
    IF s.app_mode = "Delete" /\ s.file_list.state /= None
       /\ ~InRange(s.file_list.items, s.file_list.state[1])
    THEN Panic(s) ELSE s

\* App::render_files
render_files(s, area_empty) ==
    [s EXCEPT !.file_list = list_render(@, area_empty)]

\* App::render_metadata: reads the highlighted item
render_metadata(s) ==
    IF s.file_list.state /= None /\ ~InRange(s.file_list.items, s.file_list.state[1])
    THEN Panic(s) ELSE s

\* App::render_select_menu
render_select_menu(s, area_empty) ==
    [s EXCEPT !.select_list = list_render(@, area_empty)]

\* <&mut App as Widget>::render
render(s, area_empty) ==
    LET a == IF s.app_mode \in {"Rename", "Delete", "Create"} THEN render_input(s) ELSE s
        b == IF a.panic THEN a ELSE render_files(a, area_empty)
        c == IF b.panic THEN b ELSE render_metadata(b)
    IN  IF ~c.panic /\ c.app_mode \in {"Select", "Rename", "Delete"}
        THEN render_select_menu(c, area_empty) ELSE c

----------------------------------------------------------------------------
(* The state machine: App::default, then the loop of App::run. *)

\* the App of the current state, with an empty log
Self ==
    [dir |-> dir, file_list |-> file_list, select_list |-> select_list,
     user_input |-> user_input, bookmarked |-> bookmarked, app_mode |-> app_mode,
     error_msg |-> error_msg, fs |-> fs, calls |-> <<>>, panic |-> FALSE]

\* the next state holds the App s
Commit(s) ==
    /\ dir' = s.dir
    /\ file_list' = s.file_list
    /\ select_list' = s.select_list
    /\ user_input' = s.user_input
    /\ bookmarked' = s.bookmarked
    /\ app_mode' = s.app_mode
    /\ error_msg' = s.error_msg
    /\ fs' = s.fs
    /\ calls' = s.calls

\* the filesystem at the start: the directory /a holds the directory b and the
\* file y; a directory whose name is not UTF-8 holds the file n
InitFs ==
    LET files == {<<RootName, <<"a">>, <<"y">>>>, <<RootName, BadName, <<"n">>>>}
        dirs  == {<<RootName>>, <<RootName, <<"a">>>>, <<RootName, <<"a">>, <<"b">>>>,
                  <<RootName, BadName>>}
    IN  [p \in files \cup dirs |-> IF p \in files THEN "File" ELSE "Directory"]

\* env::current_dir() at the start
StartPaths == {<<RootName, <<"a">>>>, <<RootName, BadName>>}

\* the characters the user types into a prompt, besides q and ?
PromptChars == {"a", "n", "y"}

\* the characters the user types in the other modes
CommandChars == {"q", "?", "a", "m", "-", "b", "k", "j"}

\* the events the user sends in a mode
Events(mode) ==
    {Up, Down, Enter, Esc, Backspace, NoPress, Char("q"), Char("?")}
    \cup {Char(c) : c \in IF mode \in {"Rename", "Delete", "Create"}
                          THEN PromptChars ELSE CommandChars}

\* App::default, and the first statement of App::run
App_default(path) ==
    LET s == refresh_items(
                [dir |-> [curr_path |-> path],
                 file_list |-> [items |-> <<>>, state |-> None],
                 select_list |-> SelectList_default,
                 user_input |-> UserInput_default,
                 bookmarked |-> Bookmarked_default,
                 app_mode |-> "Files",
                 error_msg |-> <<>>,
                 fs |-> InitFs, calls |-> <<>>, panic |-> FALSE])
    IN  [s EXCEPT !.file_list.state = Some(0)]

Init ==
    \E path \in StartPaths :
        LET s == App_default(path)
        IN  /\ dir = s.dir
            /\ file_list = s.file_list
            /\ select_list = s.select_list
            /\ user_input = s.user_input
            /\ bookmarked = s.bookmarked
            /\ app_mode = s.app_mode
            /\ error_msg = s.error_msg
            /\ fs = s.fs
            /\ calls = s.calls
            /\ pc = "draw"
            /\ key = NoPress
            /\ from_mode = "Files"
            /\ turns = 0

\* a loop that never stops
Running_forever(mode) == TRUE

\* the condition of the loop of App::run
Running(mode) == mode /= "Exit"

\* the position after a step of the loop
NextPc(s, after) ==
    IF s.panic THEN "panic" ELSE IF Running(s.app_mode) THEN after ELSE "done"

\* the user types into a prompt
Typing(s, code) ==
    /\ s.app_mode \in {"Rename", "Delete", "Create"}
    /\ code[1] = "Char"
    /\ code \notin {Char("q"), Char("?")}

\* the bounds of the model: the length of the session and of the text typed
InBounds(s, code) ==
    /\ turns < MaxTurns
    /\ Typing(s, code) => Len(s.user_input.input_value) < MaxInput

\* terminal.draw in App::run
Draw(area_empty) ==
    /\ pc = "draw"
    /\ LET s == render(Self, area_empty)
       IN  /\ Commit(s)
           /\ pc' = IF s.panic THEN "panic" ELSE "events"
    /\ UNCHANGED <<key, from_mode, turns>>

\* handle_events in App::run, and the refresh of the listing that follows it
HandleEvents(event, denied) ==
    /\ pc = "events"
    /\ LET s == handle_events(Self, event, denied)
           t == IF s.panic THEN s ELSE refresh_items(s)
       IN  /\ InBounds(Self, event)
           /\ Commit(t)
           /\ pc' = NextPc(t, "draw")
    /\ key' = event
    /\ from_mode' = app_mode
    /\ turns' = turns + 1

Next ==
    \/ Draw(FALSE)
    \/ \E event \in Events(app_mode), denied \in BOOLEAN : HandleEvents(event, denied)

Spec == Init /\ [][Next]_vars

\* another process removes an entry of the current directory while the
\* program waits for an event
ExternalRemove(name) ==
    /\ pc = "events"
    /\ turns < MaxTurns
    /\ name \in ChildNames(fs, dir.curr_path)
    /\ fs' = Without(fs, Subtree(fs, Append(dir.curr_path, name)))
    /\ turns' = turns + 1
    /\ UNCHANGED <<dir, file_list, select_list, user_input, bookmarked, app_mode,
                   error_msg, calls, pc, key, from_mode>>

\* the names an entry can have
Names == {Last(p) : p \in DOMAIN InitFs} \cup {<<c>> : c \in PromptChars}

\* the loop of App::run in a directory that other processes change
NextExt ==
    \/ Next
    \/ \E name \in Names : ExternalRemove(name)

SpecExt == Init /\ [][NextExt]_vars
----------------------------------------------------------------------------
(* The claims. *)

\* the last step handled an event
Handled == turns' = turns + 1 /\ pc' # pc

\* the last step made the FileManager call op
Called(log, op) == \E i \in 1..Len(log) : log[i].op = op

\* the last step made the FileManager call op, and it succeeded
Succeeded(log, op) == \E i \in 1..Len(log) : log[i].op = op /\ log[i].ok

\* the last step made a call that failed
Failed(log) == \E i \in 1..Len(log) : ~log[i].ok

PromptModes == {"Rename", "Delete", "Create"}

\* C1: FileManager::delete is called only by Enter in the mode Delete with the
\* buffer equal to "y"; with any other buffer Enter in the mode Delete leaves
\* the filesystem as it is; in both cases the mode after Enter is Files.
C1_DeleteOnlyWhenConfirmed ==
    [][Handled =>
        /\ Called(calls', "delete") =>
              key' = Enter /\ app_mode = "Delete" /\ user_input.input_value = <<"y">>
        /\ (key' = Enter /\ app_mode = "Delete" /\ user_input.input_value /= <<"y">>) =>
              fs' = fs /\ ~Called(calls', "delete")
        /\ (key' = Enter /\ app_mode = "Delete") => app_mode' = "Files"]_vars

\* Enter in the mode Delete with the buffer "y" has removed the highlighted file
C1_Witness ==
    /\ key = Enter /\ from_mode = "Delete" /\ app_mode = "Files"
    /\ user_input.input_value = <<"y">>
    /\ Succeeded(calls, "delete")
    /\ ~Exists(fs, <<RootName, <<"a">>, <<"y">>>>)

\* C2: in every mode but Exit the key q sets the mode to Exit and nothing else:
\* the buffer of a prompt is unchanged and no rename, delete or create is called.
C2_QuitBeforeModeHandling ==
    [][(Handled /\ key' = Char("q")) =>
        /\ app_mode' = "Exit"
        /\ user_input' = user_input
        /\ fs' = fs
        /\ \A op \in {"rename", "delete", "create"} : ~Called(calls', op)]_vars

\* q was pressed in a prompt that holds text
C2_Witness ==
    /\ key = Char("q") /\ from_mode \in PromptModes /\ app_mode = "Exit"
    /\ user_input.input_value = <<"y">>

\* C3: the mode becomes Exit only by the key q, and no step is taken once the
\* mode is Exit: the loop has stopped, and no event changes the App any more.
C3_ExitIsTerminal ==
    [][/\ (app_mode' = "Exit" /\ app_mode /= "Exit") => key' = Char("q")
       /\ app_mode /= "Exit"]_vars

\* the loop has stopped in the mode Exit
C3_Witness == app_mode = "Exit" /\ pc = "done" /\ key = Char("q")

\* C4: typing keeps the order of the characters: a character typed into a
\* prompt goes to the end of the text.
C4_TypingKeepsOrder ==
    [][(Handled /\ Typing(Self, key')) =>
        user_input'.input_value = Append(user_input.input_value, key'[2])]_vars

\* C5: Backspace in a prompt that holds text removes one character of it.
C5_BackspaceRemoves ==
    [][(Handled /\ key' = Backspace /\ app_mode \in PromptModes
            /\ user_input.input_value /= <<>>) =>
        Len(user_input'.input_value) = Len(user_input.input_value) - 1]_vars

\* C6: the cursor of the buffer is an index into its text: 0 <= cursor <= len.
C6_CursorInRange ==
    /\ 0 <= user_input.input_index
    /\ user_input.input_index <= str_len(user_input.input_value)

\* C7: the buffer is empty whenever the key a in the mode Files opened the
\* prompt of Create.
C7_CreatePromptStartsEmpty ==
    (key = Char("a") /\ from_mode = "Files" /\ app_mode = "Create") =>
        user_input.input_value = <<>>

\* C8: the current path is an existing directory, whatever was descended into.
C8_PathIsDirectory == IsDir(fs, dir.curr_path)

\* C9: after a step in which a FileManager call failed, the listing included,
\* the error message is not empty.
C9_FailureSetsError == Failed(calls) => error_msg /= <<>>

\* C10: after a step in which a rename, a delete or a create succeeded the
\* error message is empty.
C10_SuccessClearsError ==
    (\E op \in {"rename", "delete", "create"} : Succeeded(calls, op) /\ ~Failed(calls)) =>
        error_msg = <<>>
\* the causes std::fs reports
Errnos == {"ENOENT", "ENOTDIR", "EACCES", "EINVAL", "EISDIR", "ENOTEMPTY"}

\* the last step called op and the call failed
FailedCall(log, op) == \E i \in 1..Len(log) : log[i].op = op /\ ~log[i].ok

\* no call of the log changes the filesystem
NoMutation(log) == \A op \in {"rename", "delete", "create"} : ~Called(log, op)

\* C11: when the rename of Enter in the mode Rename fails, the error message
\* holds the cause, the mode is Files, and the path, the highlight, the file
\* list and the filesystem are as before.
C11_FailedRenameKeepsState ==
    [][(Handled /\ key' = Enter /\ app_mode = "Rename" /\ FailedCall(calls', "rename")) =>
        /\ \E e \in Errnos :
              error_msg' = <<"File Error: ", "Insufficient privilages: ", e>>
        /\ app_mode' = "Files"
        /\ dir' = dir
        /\ file_list' = file_list
        /\ fs' = fs]_vars

\* a rename was refused
C11_Witness ==
    /\ key = Enter /\ from_mode = "Rename" /\ app_mode = "Files"
    /\ FailedCall(calls, "rename")
    /\ error_msg = <<"File Error: ", "Insufficient privilages: ", "EACCES">>

\* C12: with no bookmark the key b in the mode Files calls no rename and leaves
\* the error message, the mode, the path, the file list and the highlight as
\* they are.
C12_NoBookmarkNoMove ==
    [][(Handled /\ key' = Char("b") /\ app_mode = "Files"
            /\ bookmarked = Bookmarked_default) =>
        /\ ~Called(calls', "rename")
        /\ error_msg' = error_msg
        /\ app_mode' = app_mode
        /\ dir' = dir
        /\ file_list' = file_list]_vars
\* C13: the key b in the mode Files with a bookmark set attempts the move and
\* leaves the bookmark empty, whether the move succeeded or failed; pressed
\* again, with the bookmark empty, it moves nothing.
C13_MoveClearsBookmark ==
    [][(Handled /\ key' = Char("b") /\ app_mode = "Files") =>
        /\ bookmarked # Bookmarked_default =>
              Called(calls', "rename") /\ bookmarked' = Bookmarked_default
        /\ bookmarked = Bookmarked_default =>
              fs' = fs /\ bookmarked' = Bookmarked_default]_vars

\* a bookmarked file was moved
C13_Witness ==
    /\ key = Char("b") /\ from_mode = "Files"
    /\ Succeeded(calls, "rename")
    /\ bookmarked = Bookmarked_default
    /\ fs # InitFs

\* C14: the full path and the display name of the bookmark are both empty or
\* both non-empty.
C14_BookmarkFieldsAgree ==
    (bookmarked.full_path = <<>>) <=> (bookmarked.file_name = <<>>)

\* a bookmark was set from the menu
C14_Witness ==
    /\ key = Enter /\ from_mode = "Select"
    /\ bookmarked.full_path # <<>>
    /\ bookmarked.file_name # <<>>
\* C15: descending into a child name and ascending again gives the path back,
\* for every name of the listing and for the descent that the key m made; at
\* the root ascending changes nothing, once or twice.
C15_DescendAscend ==
    [][Handled =>
        /\ \A i \in 1..Len(file_list.items) :
              previous_path(next_path(dir, file_list.items[i])) = dir
        /\ (key' = Char("m") /\ app_mode = "Files" /\ file_list.state # None) =>
              dir' # dir /\ previous_path(dir') = dir
        /\ Len(dir.curr_path) = 1 =>
              /\ previous_path(dir) = dir
              /\ previous_path(previous_path(dir)) = dir
              /\ (key' = Char("-") /\ app_mode = "Files") => dir' = dir]_vars

\* the program went into the empty directory and came back
C15_Witness ==
    /\ key = Char("-") /\ from_mode = "Files" /\ turns = 2
    /\ dir.curr_path = <<RootName, <<"a">>>>
    /\ file_list.state = None
\* the selection of a list is None or an index of its items
ValidIndex(list) == list.state = None \/ list.state[1] < Len(list.items)

C17_NothingHighlightedNoEffect ==
    [][(/\ Handled
        /\ \/ key' = Char("m") /\ app_mode = "Files" /\ file_list.state = None
           \/ /\ key' = Enter /\ app_mode = "Select"
              /\ (file_list.state = None \/ select_list.state = None)) =>
        /\ app_mode' = app_mode
        /\ dir' = dir
        /\ user_input' = user_input
        /\ bookmarked' = bookmarked
        /\ error_msg' = error_msg
        /\ fs' = fs
        /\ NoMutation(calls')]_vars

\* Enter was pressed in the menu opened in the empty directory
C17_Witness ==
    /\ key = Enter /\ from_mode = "Select" /\ app_mode = "Select"
    /\ dir.curr_path = <<RootName, <<"a">>, <<"b">>>>
    /\ file_list.items = <<>>
    /\ file_list.state = None
    /\ select_list.state # None
\* the highlighted item of a list
Highlighted(list) == list.items[list.state[1] + 1]

\* Enter is handled in the mode Select with a file and the action a highlighted
Chosen(a) ==
    /\ Handled /\ key' = Enter /\ app_mode = "Select"
    /\ file_list.state # None /\ select_list.state # None
    /\ Highlighted(select_list) = a

\* C18: Enter in the mode Select on the action Delete opens the mode Delete
\* with an empty buffer, on the action Rename the mode Rename with the name of
\* the highlighted file in the buffer and the cursor at its end; neither
\* changes the filesystem in that turn.
C18_MenuOpensPrompt ==
    [][/\ Chosen("Delete") =>
            /\ app_mode' = "Delete"
            /\ user_input'.input_value = <<>>
            /\ fs' = fs /\ NoMutation(calls')
       /\ Chosen("Rename") =>
            /\ app_mode' = "Rename"
            /\ user_input'.input_value = Highlighted(file_list)
            /\ user_input'.input_index = str_len(Highlighted(file_list))
            /\ byte_index(user_input') = str_len(user_input'.input_value)
            /\ fs' = fs /\ NoMutation(calls')]_vars

\* the prompt of Rename was opened for the directory b
C18_Witness ==
    /\ key = Enter /\ from_mode = "Select" /\ app_mode = "Rename"
    /\ user_input = [input_value |-> <<"b">>, input_index |-> 1]

\* the path joined from the current path and the name is UTF-8
Resolves(d, name) == into_string_ok(join(d.curr_path, name))

\* C19: Enter in the mode Select on the action Bookmark stores the full path
\* and the name of the highlighted file and returns to the mode Files when the
\* path resolves; when it does not, the error message is set, the bookmark is
\* as before and the mode stays Select.
C19_BookmarkAction ==
    [][Chosen("Bookmark") =>
        IF Resolves(dir, Highlighted(file_list))
        THEN /\ bookmarked' = [full_path |-> join(dir.curr_path, Highlighted(file_list)),
                               file_name |-> Highlighted(file_list)]
             /\ app_mode' = "Files"
        ELSE /\ error_msg' # <<>>
             /\ bookmarked' = bookmarked
             /\ app_mode' = "Select"]_vars

\* the file of the directory whose name is not UTF-8 could not be bookmarked
C19_Witness ==
    /\ key = Enter /\ from_mode = "Select" /\ app_mode = "Select"
    /\ FailedCall(calls, "get_file_path")
    /\ error_msg = FileError(<<"Incorrect path">>)
    /\ bookmarked = Bookmarked_default
\* what the user sees of the App, but for the mode, and the filesystem
AppButMode == <<dir, file_list, select_list, user_input, bookmarked, error_msg, fs>>

\* the only FileManager call of the step is the listing refresh that ends it
OnlyRefresh(log) == \A i \in 1..Len(log) : log[i].op = "dir_contents"

\* C20: the key ? leads to the mode Help from every mode in which keys are
\* read; in the mode Help the key ? changes nothing, Esc leads to the mode
\* Files, and every key other than q, ? and Esc changes nothing and calls the
\* FileManager for nothing but the listing refresh of the turn.
C20_HelpOverlay ==
    [][Handled =>
        /\ key' = Char("?") =>
              app_mode' = "Help" /\ UNCHANGED AppButMode /\ OnlyRefresh(calls')
        /\ (app_mode = "Help" /\ key' = Esc) =>
              app_mode' = "Files" /\ UNCHANGED AppButMode
        /\ (app_mode = "Help" /\ key' \notin {Char("q"), Char("?"), Esc}) =>
              app_mode' = "Help" /\ UNCHANGED AppButMode /\ OnlyRefresh(calls')]_vars

\* a key of the mode Files was pressed in the mode Help
C20_Witness ==
    /\ key = Char("m") /\ from_mode = "Help" /\ app_mode = "Help"
    /\ file_list.state # None
\* C21: after every turn the listing was fetched for the current path, and
\* whenever the path can be listed the file list equals that listing, taken
\* after the operation of the turn.
C21_ListRefreshedEveryTurn ==
    [][(Handled /\ pc' # "panic") =>
        /\ calls' # <<>> /\ Last(calls').op = "dir_contents"
        /\ LET contents == dir_contents(fs', dir')
           IN  /\ Last(calls').ok = contents.ok
               /\ contents.ok => file_list'.items = contents.val]_vars

\* a file was created and the list of the same turn names it
C21_Witness ==
    /\ key = Enter /\ from_mode = "Create" /\ Succeeded(calls, "create")
    /\ dir.curr_path = <<RootName, <<"a">>>>
    /\ file_list.items = <<<<"b">>, <<"n">>, <<"y">>>>
\* C22: Enter in the mode Files leads to the mode Select with the action
\* Delete (index 0) highlighted, whatever was highlighted in the menu before;
\* Esc in the mode Select leads to the mode Files with nothing highlighted in
\* the menu.  Neither changes the file highlight, the path, the bookmark or the
\* input buffer.
C22_MenuOpenAndClose ==
    [][Handled =>
        /\ (key' = Enter /\ app_mode = "Files") =>
              /\ app_mode' = "Select" /\ select_list'.state = Some(0)
              /\ UNCHANGED <<file_list, dir, bookmarked, user_input>>
        /\ (key' = Esc /\ app_mode = "Select") =>
              /\ app_mode' = "Files" /\ select_list'.state = None
              /\ UNCHANGED <<file_list, dir, bookmarked, user_input>>]_vars

\* the menu was opened again after the action Bookmark (index 2) was chosen
C22_Witness ==
    /\ key = Enter /\ from_mode = "Files" /\ app_mode = "Select"
    /\ turns = 5
    /\ bookmarked # Bookmarked_default
    /\ select_list.state = Some(0)

\* C23: Esc in the modes Rename, Delete and Create leads to the mode Select
\* and calls no rename, delete or create, whatever the input buffer holds; the
\* filesystem and the buffer are as before.
C23_EscAbandonsPrompt ==
    [][(Handled /\ key' = Esc /\ app_mode \in PromptModes) =>
        /\ app_mode' = "Select"
        /\ NoMutation(calls')
        /\ fs' = fs
        /\ user_input' = user_input]_vars

\* the prompt of Delete was left with Esc while the buffer said y
C23_Witness ==
    /\ key = Esc /\ from_mode = "Delete" /\ app_mode = "Select"
    /\ user_input.input_value = <<"y">>
    /\ fs = InitFs
\* the highlight of a list as the draw that follows shows it
Shown(list) == list_render(list, FALSE).state

\* the highlight one up and one down from i in a list of len items
OneUp(i) == Some(IF i = 0 THEN 0 ELSE i - 1)
OneDown(i, len) == Some(IF i + 1 < len THEN i + 1 ELSE len - 1)

\* the keys Up and Down move from the highlight of before to that of after
Moves(code, before, after) ==
    /\ (before.items = <<>> /\ before.state = None) => Shown(after) = None
    /\ (before.state # None /\ code \in {Up, Char("k")}) =>
          Shown(after) = OneUp(before.state[1])
    /\ (before.state # None /\ code \in {Down, Char("j")}) =>
          Shown(after) = OneDown(before.state[1], Len(before.items))
    /\ after.items = before.items

C25_NoOutOfBoundsRead == pc # "panic"
\* C26: every item of the file list is the name of an entry of the current
\* path.
C26_ItemsAreEntries ==
    \A i \in 1..Len(file_list.items) :
        file_list.items[i] \in ChildNames(fs, dir.curr_path)
\* the modes in which a file has been chosen, or help is shown
ChosenModes == {"Select", "Rename", "Delete", "Create", "Help"}

\* the path of the highlighted file
HighlightedPath == Append(dir.curr_path, Highlighted(file_list))

\* C27: in the modes Select, Rename, Delete, Create and Help no step changes
\* the file highlight or the path, and the list keeps its items while the
\* filesystem is not changed; the file that Enter in the mode Delete removes,
\* and the one that Enter in the mode Rename renames, is the highlighted one.
C27_ActsOnChosenFile ==
    [][(app_mode \in ChosenModes) =>
        /\ file_list'.state = file_list.state
        /\ dir' = dir
        /\ fs' = fs => file_list'.items = file_list.items
        /\ (Handled /\ Succeeded(calls', "delete")) =>
              fs' = Without(fs, Subtree(fs, HighlightedPath))
        /\ (Handled /\ Succeeded(calls', "rename")) =>
              fs' = MoveTree(fs, HighlightedPath,
                             Norm(join(dir.curr_path, user_input.input_value)))]_vars

\* the file y, highlighted since the menu was opened, was deleted
C27_Witness ==
    /\ key = Enter /\ from_mode = "Delete" /\ Succeeded(calls, "delete")
    /\ dir.curr_path = <<RootName, <<"a">>>>
    /\ ~Exists(fs, <<RootName, <<"a">>, <<"y">>>>)
    /\ Exists(fs, <<RootName, <<"a">>, <<"b">>>>)
\* the App after Esc was handled in the App s
AfterEsc(s) == handle_key_event(s, Esc, FALSE)

\* C28: no mode is a trap.  Whenever an event is read, Esc leads from the
\* modes Rename, Delete and Create to the mode Select and from the modes
\* Select, Help and Files to the mode Files, so that Esc pressed twice leads to
\* the mode Files from every mode, and q leads to the mode Exit, where the
\* loop ends; the draw between two keys changes no mode and the loop goes on
\* to read the next key.
C28_NoModeIsATrap ==
    [][/\ Handled =>
            /\ AfterEsc(Self).app_mode =
                  IF app_mode \in PromptModes THEN "Select" ELSE "Files"
            /\ AfterEsc(AfterEsc(Self)).app_mode = "Files"
            /\ key' = Esc => app_mode' = AfterEsc(Self).app_mode /\ pc' = "draw"
            /\ key' = Char("q") => app_mode' = "Exit" /\ pc' = "done"
       /\ pc = "draw" => app_mode' = app_mode /\ pc' = "events"]_vars

\* a prompt was opened, typed into and left for the mode Files with Esc, Esc
C28_Witness ==
    /\ key = Esc /\ from_mode = "Select" /\ app_mode = "Files"
    /\ turns = 4
    /\ user_input.input_value = <<"n">>
    /\ fs = InitFs
====
